---------------------------- MODULE Spec2Model ----------------------------
(***************************************************************************)
(* BTC 15m lag-arb engine (strategy_btc_15m_lag_arb/strategy.py,          *)
(* common.py, hyperliquid.py).                                            *)
(*                                                                         *)
(* The state is the BTCLagArb object: the three anchors, the position     *)
(* slot and cooldown_until_ts, plus the wall clock.  One execution of     *)
(* BTCLagArb.step is one action; the actions below are the paths of       *)
(* step(), each guarded by the conditions and early returns of the code.  *)
(*                                                                         *)
(* Python floats are modelled as exact rationals <<n, d>> in lowest terms *)
(* with d > 0, so equal values are equal tuples.  Optional[T] is a        *)
(* sequence of length 0 (None) or 1.  Times are integers.                 *)
(***************************************************************************)
EXTENDS Integers, Sequences, FiniteSets, TLC

\* ------------------------------------------------------------- bounds
\* Steps are taken while the wall clock is below MaxTime.
MaxTime == 5
\* time.time() inside _enter/_exit is at most MaxDelay after the step's now.
MaxDelay == 1

\* ------------------------------------------------------------- Optional
None == <<>>
Some(v) == <<v>>
Val(o) == o[1]

\* ------------------------------------------------------------- float arithmetic
Abs(x) == IF x < 0 THEN 0 - x ELSE x

\* Euclid's algorithm, as a recursive function so that each remainder is
\* computed once.
GCD(a, b) ==
    LET gcd[p \in Nat \X Nat] ==
            IF p[2] = 0 THEN p[1] ELSE gcd[<<p[2], p[1] % p[2]>>]
    IN  gcd[<<a, b>>]

\* The rational n/d (d # 0) in lowest terms with a positive denominator.
Q(n, d) ==
    LET g == GCD(Abs(n), Abs(d))
        s == IF d < 0 THEN 0 - 1 ELSE 1
    IN  IF n = 0 THEN <<0, 1>>
        ELSE <<s * ((IF n < 0 THEN 0 - 1 ELSE 1) * (Abs(n) \div g)), Abs(d) \div g>>

QAdd(a, b) == Q(a[1] * b[2] + b[1] * a[2], a[2] * b[2])
QSub(a, b) == Q(a[1] * b[2] - b[1] * a[2], a[2] * b[2])
QMul(a, b) == Q(a[1] * b[1], a[2] * b[2])
\* a / b for b # 0; the callers guard the divisor as the code does.
QDiv(a, b) == Q(a[1] * b[2], a[2] * b[1])
QAbs(a) == <<Abs(a[1]), a[2]>>
QLt(a, b) == a[1] * b[2] < b[1] * a[2]
QLe(a, b) == a[1] * b[2] <= b[1] * a[2]
\* Python's min(a, b): b only when b < a.
QMin(a, b) == IF QLt(b, a) THEN b ELSE a
QInt(n) == <<n, 1>>
Zero == QInt(0)
One == QInt(1)

\* ------------------------------------------------------------- Config
\* The Config values a run is started with (load_config_from_env):
\* the default threshold 0.0010 with each of top_of_book_only and dry_run,
\* and the threshold 0.  Hold and cooldown are in clock units.
Cfg(thr, clamp, dry) ==
    [ token_up |-> "UP_TOKEN", token_down |-> "DOWN_TOKEN",
      btc_move_threshold |-> thr, max_position_usdc |-> QInt(25),
      top_of_book_only |-> clamp, max_hold_seconds |-> 2,
      cooldown_seconds |-> 2, hl_poll_ms |-> 200, pm_poll_ms |-> 200,
      dry_run |-> dry ]

\* ------------------------------------------------------------- environment
\* The process environment: each variable is unset (None) or a string.
\* MAX_HOLD_SECONDS and COOLDOWN_SECONDS are set to 2 clock units.
Env0 ==
    [ PM_TOKEN_ID_UP |-> Some("UP_TOKEN"), PM_TOKEN_ID_DOWN |-> Some("DOWN_TOKEN"),
      BTC_MOVE_THRESHOLD |-> None, MAX_POSITION_SIZE |-> None,
      TOP_OF_BOOK_ONLY |-> None, MAX_HOLD_SECONDS |-> Some("2"),
      COOLDOWN_SECONDS |-> Some("2"), DRY_RUN |-> None,
      HL_POLL_MS |-> None, PM_POLL_MS |-> None,
      KALSHI_BTC_TICKER |-> None, POLL_INTERVAL_SECONDS |-> None ]

\* os.getenv(name, default)
getenv(e, name, default) == IF e[name] = None THEN default ELSE Val(e[name])

\* str.lower() on the strings the environments below hold.
lower(s) ==
    CASE s = "False" -> "false"
      [] OTHER -> s

\* `os.getenv(...).lower() in ("1", "true", "yes")`
EnvFlag(s) == lower(s) \in {"1", "true", "yes"}

\* float() on the decimal strings the environments below hold.
float(s) ==
    CASE s = "0.0010" -> Q(1, 1000)
      [] s = "0" -> Zero
      [] s = "25" -> QInt(25)
      [] s = "-0.0010" -> Q(0 - 1, 1000)

\* float() of a number of seconds, in clock units.
Seconds(s) ==
    CASE s = "2" -> 2
      [] s = "5" -> 5
      [] s = "30" -> 30

\* int() on the strings the environments hold: None stands for ValueError.
int(s) ==
    CASE s = "1" -> Some(1)
      [] s = "60" -> Some(60)
      [] s = "200" -> Some(200)
      [] s = "500" -> Some(500)
      [] OTHER -> None

\* load_config_from_env(): the Config read from the environment.
load_config_from_env(e) ==
    [ token_up |-> getenv(e, "PM_TOKEN_ID_UP", ""),
      token_down |-> getenv(e, "PM_TOKEN_ID_DOWN", ""),
      btc_move_threshold |-> float(getenv(e, "BTC_MOVE_THRESHOLD", "0.0010")),
      max_position_usdc |-> float(getenv(e, "MAX_POSITION_SIZE", "25")),
      top_of_book_only |-> EnvFlag(getenv(e, "TOP_OF_BOOK_ONLY", "true")),
      max_hold_seconds |-> Seconds(getenv(e, "MAX_HOLD_SECONDS", "30")),
      cooldown_seconds |-> Seconds(getenv(e, "COOLDOWN_SECONDS", "5")),
      hl_poll_ms |-> Val(int(getenv(e, "HL_POLL_MS", "200"))),
      pm_poll_ms |-> Val(int(getenv(e, "PM_POLL_MS", "200"))),
      dry_run |-> EnvFlag(getenv(e, "DRY_RUN", "true")) ]

\* The environments the engine is started in: TOP_OF_BOOK_ONLY and DRY_RUN
\* unset or "false", and a live clamped run with BTC_MOVE_THRESHOLD=0.
Envs ==
    {[Env0 EXCEPT !.TOP_OF_BOOK_ONLY = t, !.DRY_RUN = d] :
        t \in {None, Some("False")}, d \in {None, Some("false")}}
        \cup {[Env0 EXCEPT !.BTC_MOVE_THRESHOLD = Some("0"),
                           !.DRY_RUN = Some("false")]}

Configs == {load_config_from_env(e) : e \in Envs}

\* ------------------------------------------------------------- feeds
\* PriceTick.price values the reference feed reports: 0, 100, 100.15.
HLPrices == {Zero, QInt(100), Q(10015, 100)}

\* What requests.post(.../info) gives get_btc_price: an exception (network
\* error, timeout, HTTP error status, invalid JSON), or the mids, in which
\* the symbol is missing or has a price.
HlResponses ==
    {[kind |-> "raise", px |-> None], [kind |-> "mids", px |-> None]}
        \cup {[kind |-> "mids", px |-> Some(p)] : p \in HLPrices}

\* get_btc_price: the PriceTick's price, or None.
get_btc_price(resp) ==
    IF resp.kind = "raise" THEN None
    ELSE IF resp.px = None THEN None
    ELSE Some(Val(resp.px))


Lvl(p, s) == [price |-> p, size |-> s]

\* Order-book ladders as the CLOB returns them: bids ascending, asks
\* descending, so the best level of each side is the last one.  The mids
\* are 0.40 and 0.40025 (apart by exactly 0.0010 * 0.25); there are a
\* bid-only and two ask-only books, levels of size 0 and an ask of price 0.
OrderBooks ==
    { [bids |-> <<Lvl(Q(29, 100), QInt(50)), Lvl(Q(30, 100), QInt(0))>>,
       asks |-> <<Lvl(Q(51, 100), QInt(5)), Lvl(Q(50, 100), QInt(30))>>],
      [bids |-> <<Lvl(Q(40, 100), QInt(100))>>,
       asks |-> <<Lvl(Q(4005, 10000), QInt(0))>>],
      [bids |-> <<Lvl(Q(30, 100), QInt(10))>>,
       asks |-> <<>>],
      [bids |-> <<>>,
       asks |-> <<Lvl(Q(40, 100), QInt(30))>>],
      [bids |-> <<>>,
       asks |-> <<Lvl(Zero, QInt(30))>>] }

\* get_orderbook: an OrderBookSummary, or None when the client raised.
BookFetches == {None} \cup {Some(ob) : ob \in OrderBooks}

\* What client.post_order does with an order: raise (network error, HTTP
\* error status), return a non-dict (a response body that is not JSON), or
\* return the exchange's response dict: an empty one, one that reports the
\* order as not executed (success false, or a status other than matched),
\* or one that reports it matched.
PostOutcomes == {"raise", "non_dict", "empty_dict", "rejected", "matched"}

\* The outcomes in which post_order returned a dict.
DictOutcomes == {"empty_dict", "rejected", "matched"}

\* The prices of the ticks get_btc_price can return.
TickPrices ==
    {Val(get_btc_price(resp)) :
        resp \in {r \in HlResponses : get_btc_price(r) # None}}

\* ------------------------------------------------------------- common.py
Last(s) == s[Len(s)]

\* Mutant of top_of_book: the first level of each side.
top_of_book_Mut(ob) ==
    [ best_bid |-> IF ob.bids # <<>> THEN Some(Head(ob.bids).price) ELSE None,
      best_bid_size |-> IF ob.bids # <<>> THEN Some(Head(ob.bids).size) ELSE None,
      best_ask |-> IF ob.asks # <<>> THEN Some(Head(ob.asks).price) ELSE None,
      best_ask_size |-> IF ob.asks # <<>> THEN Some(Head(ob.asks).size) ELSE None ]

\* top_of_book: the last level of each side, None for an empty side.
top_of_book(ob) ==
    [ best_bid |-> IF ob.bids # <<>> THEN Some(Last(ob.bids).price) ELSE None,
      best_bid_size |-> IF ob.bids # <<>> THEN Some(Last(ob.bids).size) ELSE None,
      best_ask |-> IF ob.asks # <<>> THEN Some(Last(ob.asks).price) ELSE None,
      best_ask_size |-> IF ob.asks # <<>> THEN Some(Last(ob.asks).size) ELSE None ]

\* place_fok_limit_order: the response dict, or None.
place_fok_limit_order(mode, outcome) ==
    IF mode # "trading" THEN None
    ELSE IF outcome \in DictOutcomes THEN Some(outcome)
    ELSE None

\* What post_order did in a call of place_fok_limit_order, "none" when it
\* was not called.
Posted(mode, outcome) == IF mode # "trading" THEN "none" ELSE outcome

\* ------------------------------------------------------------- strategy.py helpers
_mid(best_bid, best_ask) ==
    IF best_bid = None \/ best_ask = None THEN None
    ELSE Some(QDiv(QAdd(Val(best_bid), Val(best_ask)), QInt(2)))

_poll_pm_mid(fetch) ==
    IF fetch = None THEN None
    ELSE LET tob == top_of_book(Val(fetch)) IN _mid(tob.best_bid, tob.best_ask)

_poll_pm_top(fetch) ==
    IF fetch = None THEN None ELSE Some(top_of_book(Val(fetch)))

_estimate_shares_for_usdc(usdc, price) ==
    IF QLe(price, Zero) THEN Zero ELSE QDiv(usdc, price)

\* Python truthiness of an Optional[float]: None and 0.0 are falsy.
Truthy(x) == x # None /\ Val(x) # Zero

\* a / b as Python evaluates it: None stands for ZeroDivisionError.
PyDiv(a, b) == IF b = Zero THEN None ELSE Some(QDiv(a, b))

\* Mutant of HlRet: the division is not guarded by `if self.last_hl_price`.
HlRet_Mut(price, last) ==
    IF last = None THEN Some(Zero)
    ELSE IF Val(last) = Zero THEN None
    ELSE Some(QSub(QDiv(price, Val(last)), One))

\* hl_ret of step(): (tick.price / last_hl_price) - 1.0 if last_hl_price else 0.0
HlRet(price, last) ==
    IF Truthy(last)
    THEN LET q == PyDiv(price, Val(last))
         IN  IF q = None THEN None ELSE Some(QSub(Val(q), One))
    ELSE Some(Zero)

\* The 0.25 of `pm_drift < btc_move_threshold * 0.25`.
StaleFraction == Q(1, 4)

\* Mutant of BelowThreshold: a return equal to the threshold is no signal.
BelowThreshold_Mut(c, hl_ret) == QLe(QAbs(hl_ret), c.btc_move_threshold)

\* abs(hl_ret) < btc_move_threshold: no signal.
BelowThreshold(c, hl_ret) == QLt(QAbs(hl_ret), c.btc_move_threshold)

\* Mutant of BookIsStale: the staleness test is not strict.
BookIsStale_Mut(c, mid, last_mid) ==
    QLe(QAbs(QSub(mid, last_mid)), QMul(c.btc_move_threshold, StaleFraction))

\* Mutant of BookIsStale: a mid that sits on its anchor always counts as
\* not moved.
BookIsStale_ZeroMut(c, mid, last_mid) ==
    \/ mid = last_mid
    \/ QLt(QAbs(QSub(mid, last_mid)), QMul(c.btc_move_threshold, StaleFraction))

\* pm_drift < btc_move_threshold * 0.25: the candidate book has not moved.
BookIsStale(c, mid, last_mid) ==
    QLt(QAbs(QSub(mid, last_mid)), QMul(c.btc_move_threshold, StaleFraction))

\* Mutant of Holding: the position branch of step() is never taken.
Holding_Mut(pos) == FALSE

\* `if self.position:` of step().
Holding(pos) == pos # None

\* Mutant of InCooldown: the cooldown test is dropped.
InCooldown_Mut(now, cooldown_until) == FALSE

\* `now < self.cooldown_until_ts` of step().
InCooldown(now, cooldown_until) == now < cooldown_until

\* Mutant of MaxHoldExceeded: the max-hold test is strict.
MaxHoldExceeded_Mut(c, now, pos) == now - Val(pos).entry_ts > c.max_hold_seconds

\* `held_for >= max_hold_seconds` of step().
MaxHoldExceeded(c, now, pos) == now - Val(pos).entry_ts >= c.max_hold_seconds

\* Mutant of MovedFavorably: a mid equal to the entry price counts.
MovedFavorably_Mut(mid_now, pos) == QLe(Val(pos).entry_price, mid_now)

\* `mid_now > self.position.entry_price` of step().
MovedFavorably(mid_now, pos) == QLt(Val(pos).entry_price, mid_now)

\* Mutant of Filled: any answer of the gateway counts as a fill.
Filled_Mut(res) == TRUE

\* `if res:` of _enter and _exit: the gateway's answer counts as a fill.
Filled(res) == res # None /\ Val(res) # "empty_dict"

\* What a call of _enter / _exit did when it built no order.
NoOrder == [order |-> None, sent |-> FALSE, acked |-> FALSE, ok |-> FALSE]

\* Mutant of EnterSize: the clamp takes the larger of the two sizes.
EnterSize_Mut(c, best_ask, ask_size) ==
    LET size_shares == IF QLe(best_ask, Zero) THEN Zero
                       ELSE QDiv(c.max_position_usdc, best_ask)
    IN  IF c.top_of_book_only /\ ask_size # None /\ QLt(size_shares, Val(ask_size))
        THEN Val(ask_size)
        ELSE size_shares

\* size_shares of _enter before the `<= 0` test.
EnterSize(c, best_ask, ask_size) ==
    LET size_shares == _estimate_shares_for_usdc(c.max_position_usdc, best_ask)
    IN  IF c.top_of_book_only /\ ask_size # None
        THEN QMin(size_shares, Val(ask_size))
        ELSE size_shares

\* Mutant of _enter: the dry_run test is missing, the order goes out.
_enter_Mut(c, mode, pos, side, token_id, best_ask, ask_size, outcome, ts) ==
    LET size_shares == EnterSize(c, best_ask, ask_size)
        order == [side |-> "BUY", token_id |-> token_id,
                  size |-> size_shares, price |-> best_ask]
        opened == Some([side |-> side, token_id |-> token_id,
                        entry_price |-> best_ask, entry_ts |-> ts,
                        size_shares |-> size_shares])
        res == place_fok_limit_order(mode, outcome)
    IN  IF QLe(size_shares, Zero)
        THEN [position |-> pos] @@ NoOrder
        ELSE IF Filled(res)
        THEN [position |-> opened, order |-> Some(order),
              sent |-> TRUE, acked |-> res # None, ok |-> TRUE]
        ELSE [position |-> pos, order |-> Some(order),
              sent |-> TRUE, acked |-> res # None, ok |-> FALSE]

\* _enter: the position slot afterwards, the order built, whether it was
\* sent to place_fok_limit_order (sent), whether that returned a response
\* (acked) and the return value (ok).  outcome is what post_order does,
\* ts the time.time() of the fill.
_enter(c, mode, pos, side, token_id, best_ask, ask_size, outcome, ts) ==
    LET size_shares == EnterSize(c, best_ask, ask_size)
        order == [side |-> "BUY", token_id |-> token_id,
                  size |-> size_shares, price |-> best_ask]
        opened == Some([side |-> side, token_id |-> token_id,
                        entry_price |-> best_ask, entry_ts |-> ts,
                        size_shares |-> size_shares])
        res == place_fok_limit_order(mode, outcome)
    IN  IF QLe(size_shares, Zero)
        THEN [position |-> pos] @@ NoOrder
        ELSE IF c.dry_run
        THEN [position |-> opened, order |-> Some(order),
              sent |-> FALSE, acked |-> FALSE, ok |-> TRUE]
        ELSE IF Filled(res)
        THEN [position |-> opened, order |-> Some(order),
              sent |-> TRUE, acked |-> res # None, ok |-> TRUE]
        ELSE [position |-> pos, order |-> Some(order),
              sent |-> TRUE, acked |-> res # None, ok |-> FALSE]

\* Mutant of ExitSize: the clamp takes the larger of the two sizes.
ExitSize_Mut(c, pos, bid_size) ==
    IF c.top_of_book_only /\ bid_size # None
    THEN IF QLt(Val(pos).size_shares, Val(bid_size)) THEN Val(bid_size)
         ELSE Val(pos).size_shares
    ELSE Val(pos).size_shares

\* size_shares of _exit before the `<= 0` test.
ExitSize(c, pos, bid_size) ==
    IF c.top_of_book_only /\ bid_size # None
    THEN QMin(Val(pos).size_shares, Val(bid_size))
    ELSE Val(pos).size_shares

\* Mutant of _exit: an exit order that is not filled gives the position up.
_exit_Mut(c, mode, pos, cooldown_until, best_bid, bid_size, outcome, ts) ==
    IF pos = None
    THEN [position |-> pos, cooldown_until_ts |-> cooldown_until] @@ NoOrder
    ELSE
    LET size_shares == ExitSize(c, pos, bid_size)
        order == [side |-> "SELL", token_id |-> Val(pos).token_id,
                  size |-> size_shares, price |-> best_bid]
        closed == ts + c.cooldown_seconds
        res == place_fok_limit_order(mode, outcome)
    IN  IF QLe(size_shares, Zero)
        THEN [position |-> pos, cooldown_until_ts |-> cooldown_until] @@ NoOrder
        ELSE IF c.dry_run
        THEN [position |-> None, cooldown_until_ts |-> closed,
              order |-> Some(order), sent |-> FALSE, acked |-> FALSE, ok |-> TRUE]
        ELSE IF Filled(res)
        THEN [position |-> None, cooldown_until_ts |-> closed,
              order |-> Some(order), sent |-> TRUE, acked |-> res # None,
              ok |-> TRUE]
        ELSE [position |-> None, cooldown_until_ts |-> cooldown_until,
              order |-> Some(order), sent |-> TRUE, acked |-> res # None,
              ok |-> FALSE]

\* Mutant of _exit: an exit order that is not filled starts the cooldown.
_exit_CooldownMut(c, mode, pos, cooldown_until, best_bid, bid_size, outcome, ts) ==
    IF pos = None
    THEN [position |-> pos, cooldown_until_ts |-> cooldown_until] @@ NoOrder
    ELSE
    LET size_shares == ExitSize(c, pos, bid_size)
        order == [side |-> "SELL", token_id |-> Val(pos).token_id,
                  size |-> size_shares, price |-> best_bid]
        closed == ts + c.cooldown_seconds
        res == place_fok_limit_order(mode, outcome)
    IN  IF QLe(size_shares, Zero)
        THEN [position |-> pos, cooldown_until_ts |-> cooldown_until] @@ NoOrder
        ELSE IF c.dry_run
        THEN [position |-> None, cooldown_until_ts |-> closed,
              order |-> Some(order), sent |-> FALSE, acked |-> FALSE, ok |-> TRUE]
        ELSE IF Filled(res)
        THEN [position |-> None, cooldown_until_ts |-> closed,
              order |-> Some(order), sent |-> TRUE, acked |-> res # None,
              ok |-> TRUE]
        ELSE [position |-> pos, cooldown_until_ts |-> closed,
              order |-> Some(order), sent |-> TRUE, acked |-> res # None,
              ok |-> FALSE]

\* _exit: the position slot and cooldown_until_ts afterwards, and the
\* order as for _enter.
_exit(c, mode, pos, cooldown_until, best_bid, bid_size, outcome, ts) ==
    IF pos = None
    THEN [position |-> pos, cooldown_until_ts |-> cooldown_until] @@ NoOrder
    ELSE
    LET size_shares == ExitSize(c, pos, bid_size)
        order == [side |-> "SELL", token_id |-> Val(pos).token_id,
                  size |-> size_shares, price |-> best_bid]
        closed == ts + c.cooldown_seconds
        res == place_fok_limit_order(mode, outcome)
    IN  IF QLe(size_shares, Zero)
        THEN [position |-> pos, cooldown_until_ts |-> cooldown_until] @@ NoOrder
        ELSE IF c.dry_run
        THEN [position |-> None, cooldown_until_ts |-> closed,
              order |-> Some(order), sent |-> FALSE, acked |-> FALSE, ok |-> TRUE]
        ELSE IF Filled(res)
        THEN [position |-> None, cooldown_until_ts |-> closed,
              order |-> Some(order), sent |-> TRUE, acked |-> res # None,
              ok |-> TRUE]
        ELSE [position |-> pos, cooldown_until_ts |-> cooldown_until,
              order |-> Some(order), sent |-> TRUE, acked |-> res # None,
              ok |-> FALSE]

\* ------------------------------------------------------------- state
VARIABLES
    env,                \* os.environ of the process
    main,               \* main(): its position, exit status and calls
    cfg,                \* self.cfg
    clob_mode,          \* OptimizedClobClient.mode
    last_hl_price,      \* Optional[float]
    last_pm_mid_up,     \* Optional[float]
    last_pm_mid_down,   \* Optional[float]
    position,           \* Optional[Position]
    cooldown_until_ts,  \* float
    clock,              \* time.time() at the start of the next step
    last_exit_ts,       \* history: time.time() of the last successful exit
    obs                 \* history: what the last step read and did

vars == <<env, main, cfg, clob_mode, last_hl_price, last_pm_mid_up, last_pm_mid_down,
          position, cooldown_until_ts, clock, last_exit_ts, obs>>

anchors == <<last_hl_price, last_pm_mid_up, last_pm_mid_down>>

\* The modes __init__ of OptimizedClobClient can end in.
ClobModes == {"trading", "read-only", "l1-only"}

\* The runs: every environment with a trading client, and the live
\* clamped Config also with a client that cannot trade.
Runs ==
    {<<e, m>> \in Envs \X ClobModes :
        m = "trading" \/ load_config_from_env(e) = Cfg(Q(1, 1000), TRUE, FALSE)}

\* main() before it ran: no exit status, no call made.
\* main() before it runs; sleep_ms and elapsed_ms are the argument of the
\* last time.sleep, in ms, and the time the iteration before it took.
Main0 ==
    [pc |-> "start", exit_status |-> None, polls |-> 0,
     elapsed_ms |-> 0, sleep_ms |-> 0]

\* obs before any step; each step overwrites every field.
\*   now      time.time() at the start of the step
\*   held     whether self.position was set at the start of the step
\*   path     the return of step() that was taken
\*   got_tick, got_up, got_down
\*            whether get_btc_price / _poll_pm_mid returned a value
\*   seen     <<tick.price, up_mid, down_mid>> of a step that reached the
\*            signal evaluation (flat and out of cooldown, line 207)
\*   tob      the TopOfBook of the third fetch (_poll_pm_top), if it was made
\*   polls    number of get_orderbook calls
\*   attempt  "enter" / "exit" when _enter / _exit was called
\*   order    the order built (size > 0); sent: place_fok_limit_order was
\*            called with it; acked: it returned a response; ok: the
\*            return value of _enter / _exit
\*   post     what post_order did with the order, "none" when it was not
\*            called
\*   raised   an exception escaped step()
\*   retry    the step before this one called _exit at or after max hold
\*            and the exit did not succeed
\*   net_shares
\*            shares bought less shares sold over the run so far, by the
\*            return values of _enter / _exit
\*   orders   number of orders the step built
Obs0 ==
    [ now |-> 0, held |-> FALSE, retry |-> FALSE, path |-> "init",
      got_tick |-> FALSE,
      got_up |-> FALSE, got_down |-> FALSE, seen |-> None, book |-> None,
      tob |-> None,
      polls |-> 0, attempt |-> "none", order |-> None, sent |-> FALSE,
      acked |-> FALSE, ok |-> FALSE, post |-> "none", raised |-> FALSE,
      net_shares |-> Zero, orders |-> 0 ]

Init ==
    /\ \E run \in Runs :
         /\ env = run[1]
         /\ cfg = load_config_from_env(run[1])
         /\ clob_mode = run[2]
    /\ main = Main0
    /\ last_hl_price = None
    /\ last_pm_mid_up = None
    /\ last_pm_mid_down = None
    /\ position = None
    /\ cooldown_until_ts = 0
    /\ clock = 0
    /\ last_exit_ts = None
    /\ obs = Obs0

Max(a, b) == IF a > b THEN a ELSE b

\* The record of a step at its start (line 156).  net_shares is carried
\* from step to step: the shares bought by the entries so far minus the
\* shares sold by the exits so far.
ObsStart ==
    [Obs0 EXCEPT !.now = clock, !.held = (position # None),
                 !.retry = (obs.path = "max_hold" /\ obs.attempt = "exit"
                                /\ ~obs.ok),
                 !.net_shares = obs.net_shares]

\* The results _poll_pm_mid can return in a step.
PolledMids == {_poll_pm_mid(f) : f \in BookFetches}

\* Mutant of HlAnchor: last_hl_price follows every tick.
HlAnchor_Mut(price) == Some(price)

\* Lines 161-162 of step(): last_hl_price after its first-time initialisation.
HlAnchor(price) == IF last_hl_price = None THEN Some(price) ELSE last_hl_price

\* Mutant of MidAnchor: the mid anchor follows every polled mid.
MidAnchor_Mut(last_mid, mid) == mid

\* Lines 173-176 of step(): a mid anchor after its first-time initialisation.
MidAnchor(last_mid, mid) == IF last_mid = None THEN mid ELSE last_mid

\* The record of a step whose tick was present and that polled both mids.
ObsPolled(got_up, got_down) ==
    [ObsStart EXCEPT !.got_tick = TRUE, !.got_up = got_up,
                     !.got_down = got_down, !.polls = 2]

\* The same for a step that reached the signal evaluation.
ObsOf(price, up_mid, down_mid) ==
    [ObsPolled(up_mid # None, down_mid # None) EXCEPT
        !.seen = Some(<<price, up_mid, down_mid>>)]

\* last_hl_price after a step that got a tick and computed hl_ret (lines
\* 160-163), over the prices the tick can carry.
HlAnchorsPolled ==
    {HlAnchor(price) : price \in {q \in TickPrices : HlRet(q, HlAnchor(q)) # None}}

\* A mid anchor after a step that polled a mid (lines 173-176), over the
\* mids the poll can return.
MidAnchorsPolled(last_mid) ==
    {MidAnchor(last_mid, mid) : mid \in PolledMids \ {None}}

\* Mutant of StepNoTick: the return comes after the books were polled.
StepNoTick_Mut ==
    /\ clock < MaxTime
    /\ \E resp \in HlResponses : get_btc_price(resp) = None
    /\ obs' = [ObsStart EXCEPT !.path = "no_tick", !.polls = 2]
    /\ clock' = clock + 1
    /\ UNCHANGED <<env, main, cfg, clob_mode, last_hl_price, last_pm_mid_up,
                   last_pm_mid_down, position, cooldown_until_ts, last_exit_ts>>

\* get_btc_price returned None: step() returns at once.
StepNoTick ==
    /\ clock < MaxTime
    /\ \E resp \in HlResponses : get_btc_price(resp) = None
    /\ obs' = [ObsStart EXCEPT !.path = "no_tick"]
    /\ clock' = clock + 1
    /\ UNCHANGED <<env, main, cfg, clob_mode, last_hl_price, last_pm_mid_up,
                   last_pm_mid_down, position, cooldown_until_ts, last_exit_ts>>

\* Mutant of StepNoMid: a step with a missing mid still goes on to poll the
\* held token's book.
StepNoMid_Mut ==
    /\ clock < MaxTime
    /\ \/ /\ last_hl_price' \in HlAnchorsPolled
          /\ \E got \in {<<up_mid # None, down_mid # None>> :
                           up_mid \in PolledMids, down_mid \in PolledMids} :
               /\ ~got[1] \/ ~got[2]
               /\ obs' = [ObsStart EXCEPT !.path = "no_mid", !.got_tick = TRUE,
                                          !.got_up = got[1], !.got_down = got[2],
                                          !.polls = IF position # None THEN 3
                                                    ELSE 2]
       \/ \E price \in TickPrices :
            /\ HlRet(price, HlAnchor(price)) = None
            /\ last_hl_price' = HlAnchor(price)
            /\ obs' = [ObsStart EXCEPT !.got_tick = TRUE, !.path = "raised",
                                       !.raised = TRUE]
    /\ clock' = clock + 1
    /\ UNCHANGED <<env, main, cfg, clob_mode, last_pm_mid_up, last_pm_mid_down, position,
                   cooldown_until_ts, last_exit_ts>>

\* A tick, but a mid is None (or computing hl_ret raised): step() returns
\* after last_hl_price was initialised.
StepNoMid ==
    /\ clock < MaxTime
    /\ \/ /\ last_hl_price' \in HlAnchorsPolled
          /\ \E got \in {<<up_mid # None, down_mid # None>> :
                           up_mid \in PolledMids, down_mid \in PolledMids} :
               /\ ~got[1] \/ ~got[2]
               /\ obs' = [ObsStart EXCEPT !.path = "no_mid", !.got_tick = TRUE,
                                          !.got_up = got[1], !.got_down = got[2],
                                          !.polls = 2]
       \/ \E price \in TickPrices :
            /\ HlRet(price, HlAnchor(price)) = None
            /\ last_hl_price' = HlAnchor(price)
            /\ obs' = [ObsStart EXCEPT !.got_tick = TRUE, !.path = "raised",
                                       !.raised = TRUE]
    /\ clock' = clock + 1
    /\ UNCHANGED <<env, main, cfg, clob_mode, last_pm_mid_up, last_pm_mid_down, position,
                   cooldown_until_ts, last_exit_ts>>

\* Mutant of ExitCall: after an exit that succeeded the step does not
\* return but goes on to buy the token back, a second order in the step.
ExitCall_Mut(o, tob, late, outcomes, delays) ==
    \E x \in { [r |-> _exit(cfg, clob_mode, position, cooldown_until_ts,
                            Val(Val(tob).best_bid), Val(tob).best_bid_size,
                            outcome, clock + d),
                post |-> Posted(clob_mode, outcome), ts |-> clock + d] :
               outcome \in outcomes, d \in delays } :
      /\ position' = IF x.r.ok
                     THEN Some([Val(position) EXCEPT !.entry_ts = x.ts])
                     ELSE x.r.position
      /\ cooldown_until_ts' = x.r.cooldown_until_ts
      /\ last_exit_ts' = IF position # None /\ x.r.position = None
                         THEN Some(x.ts) ELSE last_exit_ts
      /\ clock' = IF late THEN clock ELSE Max(clock + 1, x.ts)
      /\ obs' = [o EXCEPT !.attempt = "exit", !.order = x.r.order,
                          !.sent = x.r.sent, !.acked = x.r.acked,
                          !.ok = x.r.ok,
                          !.post = IF x.r.sent THEN x.post ELSE "none",
                          !.orders = IF x.r.ok THEN @ + 2
                                     ELSE IF x.r.order # None THEN @ + 1
                                     ELSE @]

\* A call of _exit from step() with the polled top of book: the position
\* slot, cooldown_until_ts, the clock and the record of the step afterwards.
\* post_order may do any of PostOutcomes and the fill is stamped up to
\* MaxDelay after the step's now.  `late` is a step taken once the clock
\* has reached MaxTime: the clock is no longer advanced.
ExitCall(o, tob, late, outcomes, delays) ==
    \E x \in { [r |-> _exit(cfg, clob_mode, position, cooldown_until_ts,
                            Val(Val(tob).best_bid), Val(tob).best_bid_size,
                            outcome, clock + d),
                post |-> Posted(clob_mode, outcome), ts |-> clock + d] :
               outcome \in outcomes, d \in delays } :
      /\ position' = x.r.position
      /\ cooldown_until_ts' = x.r.cooldown_until_ts
      /\ last_exit_ts' = IF position # None /\ x.r.position = None
                         THEN Some(x.ts) ELSE last_exit_ts
      /\ clock' = IF late THEN clock ELSE Max(clock + 1, x.ts)
      /\ obs' = [o EXCEPT !.attempt = "exit", !.order = x.r.order,
                          !.sent = x.r.sent, !.acked = x.r.acked,
                          !.ok = x.r.ok,
                          !.post = IF x.r.sent THEN x.post ELSE "none",
                          !.net_shares = IF x.r.ok
                                         THEN QSub(@, Val(x.r.order).size)
                                         ELSE @,
                          !.orders = IF x.r.order # None THEN @ + 1 ELSE @]

CallExit(o, tob) == ExitCall(o, tob, FALSE, PostOutcomes, 0..MaxDelay)

\* Holding and held_for >= max_hold_seconds: exit at the best bid if there is one.
\* fetches, outcomes and delays are what the third get_orderbook, post_order
\* and the clock may do in the step.
MaxHoldStep(late, fetches, outcomes, delays) ==
    /\ Holding(position)
    /\ MaxHoldExceeded(cfg, clock, position)
    /\ last_hl_price' \in HlAnchorsPolled
    /\ last_pm_mid_up' \in MidAnchorsPolled(last_pm_mid_up)
    /\ last_pm_mid_down' \in MidAnchorsPolled(last_pm_mid_down)
    /\ \E fetch \in fetches :
         LET tob == _poll_pm_top(fetch)
             o == [ObsPolled(TRUE, TRUE) EXCEPT
                      !.path = "max_hold", !.book = fetch, !.tob = tob,
                      !.polls = 3]
         IN  IF tob # None /\ Val(tob).best_bid # None
             THEN ExitCall(o, tob, late, outcomes, delays)
             ELSE /\ obs' = o
                  /\ clock' = IF late THEN clock ELSE clock + 1
                  /\ UNCHANGED <<position, cooldown_until_ts, last_exit_ts>>
    /\ UNCHANGED <<env, main, cfg, clob_mode>>

StepMaxHold ==
    /\ clock < MaxTime
    /\ MaxHoldStep(FALSE, BookFetches, PostOutcomes, 0..MaxDelay)

\* The same step once the clock has reached MaxTime: the engine keeps
\* stepping while it holds a Position past max hold.
LateMaxHold ==
    /\ clock >= MaxTime
    /\ MaxHoldStep(TRUE, BookFetches, PostOutcomes, 0..MaxDelay)

\* Holding below max hold: exit at the best bid when the mid of the held
\* token's book is above the entry price.
StepHold ==
    /\ clock < MaxTime
    /\ Holding(position)
    /\ ~MaxHoldExceeded(cfg, clock, position)
    /\ last_hl_price' \in HlAnchorsPolled
    /\ last_pm_mid_up' \in MidAnchorsPolled(last_pm_mid_up)
    /\ last_pm_mid_down' \in MidAnchorsPolled(last_pm_mid_down)
    /\ \E fetch \in BookFetches :
         LET tob == _poll_pm_top(fetch)
             o == [ObsPolled(TRUE, TRUE) EXCEPT
                      !.path = "hold", !.book = fetch, !.tob = tob,
                      !.polls = 3]
             mid_now == IF tob = None THEN None
                        ELSE _mid(Val(tob).best_bid, Val(tob).best_ask)
         IN  IF /\ tob # None
                /\ Val(tob).best_bid # None
                /\ Val(tob).best_ask # None
                /\ mid_now # None
                /\ MovedFavorably(Val(mid_now), position)
             THEN CallExit(o, tob)
             ELSE /\ obs' = o
                  /\ clock' = clock + 1
                  /\ UNCHANGED <<position, cooldown_until_ts, last_exit_ts>>
    /\ UNCHANGED <<env, main, cfg, clob_mode>>

\* Flat and now < cooldown_until_ts: step() returns.
StepCooldown ==
    /\ clock < MaxTime
    /\ ~Holding(position)
    /\ InCooldown(clock, cooldown_until_ts)
    /\ last_hl_price' \in HlAnchorsPolled
    /\ last_pm_mid_up' \in MidAnchorsPolled(last_pm_mid_up)
    /\ last_pm_mid_down' \in MidAnchorsPolled(last_pm_mid_down)
    /\ obs' = [ObsPolled(TRUE, TRUE) EXCEPT !.path = "cooldown"]
    /\ clock' = clock + 1
    /\ UNCHANGED <<env, main, cfg, clob_mode, position, cooldown_until_ts, last_exit_ts>>

\* Flat, out of cooldown, abs(hl_ret) < btc_move_threshold: step() returns.
\* prices are the prices the tick may carry; `late` is a step taken once
\* the clock has reached MaxTime: the clock is no longer advanced.
NoSignalStep(late, prices) ==
    /\ ~Holding(position)
    /\ ~InCooldown(clock, cooldown_until_ts)
    /\ \E price \in prices :
         /\ HlRet(price, HlAnchor(price)) # None
         /\ BelowThreshold(cfg, Val(HlRet(price, HlAnchor(price))))
         /\ last_hl_price' = HlAnchor(price)
         /\ \E up_mid \in PolledMids \ {None}, down_mid \in PolledMids \ {None} :
              /\ last_pm_mid_up' = MidAnchor(last_pm_mid_up, up_mid)
              /\ last_pm_mid_down' = MidAnchor(last_pm_mid_down, down_mid)
              /\ obs' = [ObsOf(price, up_mid, down_mid) EXCEPT !.path = "no_signal"]
    /\ clock' = IF late THEN clock ELSE clock + 1
    /\ UNCHANGED <<env, main, cfg, clob_mode, position, cooldown_until_ts, last_exit_ts>>

StepNoSignal ==
    /\ clock < MaxTime
    /\ NoSignalStep(FALSE, TickPrices)

\* The same step once the clock has reached MaxTime: the engine keeps
\* stepping while it is flat.
LateNoSignal ==
    /\ clock >= MaxTime
    /\ NoSignalStep(TRUE, TickPrices)

\* `if hl_ret > 0:` the UP token is the candidate, else the DOWN token.
Candidate(hl_ret) == IF QLt(Zero, hl_ret) THEN "UP" ELSE "DOWN"

\* Mutant of UpdateAnchors: the anchors keep their values.
UpdateAnchors_Mut(price, up_mid, down_mid) ==
    <<HlAnchor(price), MidAnchor(last_pm_mid_up, up_mid),
      MidAnchor(last_pm_mid_down, down_mid)>>

\* Lines 232-234 of step(): the anchors are set to the values just observed.
UpdateAnchors(price, up_mid, down_mid) == <<Some(price), up_mid, down_mid>>

\* A call of _enter from step() with the polled top of book.
CallEnter(o, side, tob) ==
    \E x \in { [r |-> _enter(cfg, clob_mode, position, side,
                             IF side = "UP" THEN cfg.token_up ELSE cfg.token_down,
                             Val(Val(tob).best_ask), Val(tob).best_ask_size,
                             outcome, clock + d),
                post |-> Posted(clob_mode, outcome), ts |-> clock + d] :
               outcome \in PostOutcomes, d \in 0..MaxDelay } :
      /\ position' = x.r.position
      /\ clock' = Max(clock + 1, x.ts)
      /\ obs' = [o EXCEPT !.attempt = "enter", !.order = x.r.order,
                          !.sent = x.r.sent, !.acked = x.r.acked,
                          !.ok = x.r.ok,
                          !.post = IF x.r.sent THEN x.post ELSE "none",
                          !.net_shares = IF x.r.ok
                                         THEN QAdd(@, Val(x.r.order).size)
                                         ELSE @,
                          !.orders = IF x.r.order # None THEN @ + 1 ELSE @]

\* Flat, out of cooldown, abs(hl_ret) >= btc_move_threshold: poll the
\* candidate's top of book, enter if its mid is stale, update the anchors.
StepSignal ==
    /\ clock < MaxTime
    /\ ~Holding(position)
    /\ ~InCooldown(clock, cooldown_until_ts)
    /\ \E price \in TickPrices :
         /\ HlRet(price, HlAnchor(price)) # None
         /\ ~BelowThreshold(cfg, Val(HlRet(price, HlAnchor(price))))
         /\ \E up_mid \in PolledMids \ {None}, down_mid \in PolledMids \ {None},
               fetch \in BookFetches :
              LET tob == _poll_pm_top(fetch)
                  side == Candidate(Val(HlRet(price, HlAnchor(price))))
                  mid == IF side = "UP" THEN up_mid ELSE down_mid
                  last_mid == IF side = "UP"
                              THEN MidAnchor(last_pm_mid_up, up_mid)
                              ELSE MidAnchor(last_pm_mid_down, down_mid)
                  o == [ObsOf(price, up_mid, down_mid) EXCEPT
                           !.book = fetch, !.tob = tob, !.polls = 3]
              IN  IF tob = None \/ Val(tob).best_ask = None
                                \/ Val(tob).best_ask_size = None
                  THEN /\ last_hl_price' = HlAnchor(price)
                       /\ last_pm_mid_up' = MidAnchor(last_pm_mid_up, up_mid)
                       /\ last_pm_mid_down' = MidAnchor(last_pm_mid_down, down_mid)
                       /\ obs' = [o EXCEPT !.path = "no_top"]
                       /\ clock' = clock + 1
                       /\ UNCHANGED position
                  ELSE /\ last_hl_price' = UpdateAnchors(price, up_mid, down_mid)[1]
                       /\ last_pm_mid_up' = UpdateAnchors(price, up_mid, down_mid)[2]
                       /\ last_pm_mid_down' = UpdateAnchors(price, up_mid, down_mid)[3]
                       /\ IF BookIsStale(cfg, Val(mid), Val(last_mid))
                          THEN CallEnter([o EXCEPT !.path = "signal"], side, tob)
                          ELSE /\ obs' = [o EXCEPT !.path = "signal"]
                               /\ clock' = clock + 1
                               /\ UNCHANGED position
    /\ UNCHANGED <<env, main, cfg, clob_mode, cooldown_until_ts, last_exit_ts>>

Next ==
    \/ StepNoTick
    \/ StepNoMid
    \/ StepMaxHold
    \/ StepHold
    \/ StepCooldown
    \/ StepNoSignal
    \/ StepSignal

Spec == Init /\ [][Next]_vars

\* The order books whose top shows a bid of positive size.
BidBooks ==
    {fetch \in BookFetches \ {None} :
        /\ top_of_book(Val(fetch)).best_bid # None
        /\ QLt(Zero, Val(top_of_book(Val(fetch)).best_bid_size))}

\* A step at or after max hold in which the tick and both mids are there,
\* the held token shows a bid of positive size and the exchange matches
\* the order at once.
MaxHoldExit ==
    MaxHoldStep(clock >= MaxTime, BidBooks, {"matched"}, {0})

NextFair ==
    \/ Next
    \/ LateMaxHold

\* The runs of the fair specification: the default environment (dry-run)
\* and the live one, both clamped, with a trading client.
InitFair ==
    /\ Init
    /\ env \in {Env0, [Env0 EXCEPT !.DRY_RUN = Some("false")]}
    /\ clob_mode = "trading"

\* The Scheduler keeps calling step() once per cycle (its loop is described
\* in the specification, section 4.4), and the feeds, the bid and the
\* gateway do not fail for ever.
SpecFair == InitFair /\ [][NextFair]_vars /\ WF_vars(MaxHoldExit)

\* The ticks with a price above zero.
PositivePrices == {price \in TickPrices : QLt(Zero, price)}

\* A flat step below the threshold in which the tick carries a positive
\* price and both mids are there.
QuietStep == NoSignalStep(clock >= MaxTime, PositivePrices)

NextWarm ==
    \/ Next
    \/ LateNoSignal

\* The runs of the warm-up specification: the default environment with a
\* trading client.
InitWarm ==
    /\ Init
    /\ env = Env0
    /\ clob_mode = "trading"

\* The Scheduler keeps calling step() once per cycle, and the reference
\* feed and the books do not fail for ever.
SpecWarm == InitWarm /\ [][NextWarm]_vars /\ WF_vars(QuietStep)

\* The environments with BTC_MOVE_THRESHOLD unset (0.0010), zero and
\* negative; float() accepts each of them.
ThrEnvs ==
    {[Env0 EXCEPT !.BTC_MOVE_THRESHOLD = t] :
        t \in {None, Some("0"), Some("-0.0010")}}

\* BTCLagArb.__init__ after load_config_from_env in one of ThrEnvs.
InitThr ==
    /\ env \in ThrEnvs
    /\ cfg = load_config_from_env(env)
    /\ clob_mode = "trading"
    /\ main = Main0
    /\ last_hl_price = None
    /\ last_pm_mid_up = None
    /\ last_pm_mid_down = None
    /\ position = None
    /\ cooldown_until_ts = 0
    /\ clock = 0
    /\ last_exit_ts = None
    /\ obs = Obs0

SpecThr == InitThr /\ [][Next]_vars

\* ------------------------------------------------------------- main.py
\* The environments main() is started in: the instrument ids, the ticker
\* and the poll intervals each unset or set ("x" is not an integer).
MainEnvs ==
    {[Env0 EXCEPT !.PM_TOKEN_ID_UP = up, !.PM_TOKEN_ID_DOWN = down,
                  !.KALSHI_BTC_TICKER = ticker, !.POLL_INTERVAL_SECONDS = ivl,
                  !.HL_POLL_MS = hl_ms] :
        up \in {None, Some("UP_TOKEN")}, down \in {None, Some("DOWN_TOKEN")},
        ticker \in {None, Some(""), Some("KXBTC")},
        ivl \in {None, Some("1"), Some("x")},
        hl_ms \in {None, Some("500")}}

\* The time one iteration of the loop can take before it sleeps, in ms.
ElapsedMs == {0, 100, 300}

\* The process ended with this exit status.
Exited(status) == [main EXCEPT !.pc = "exited", !.exit_status = Some(status)]

InitMain ==
    /\ env \in MainEnvs
    /\ cfg = load_config_from_env(env)
    /\ clob_mode = "trading"
    /\ main = Main0
    /\ last_hl_price = None
    /\ last_pm_mid_up = None
    /\ last_pm_mid_down = None
    /\ position = None
    /\ cooldown_until_ts = 0
    /\ clock = 0
    /\ last_exit_ts = None
    /\ obs = Obs0

\* Line 14: `from common import get_client` resolves, or raises
\* ImportError and the interpreter exits with status 1.
MainImport ==
    /\ main.pc = "start"
    /\ \E resolved \in BOOLEAN :
         main' = IF resolved THEN [main EXCEPT !.pc = "config"] ELSE Exited(1)
    /\ UNCHANGED <<env, cfg, clob_mode, last_hl_price, last_pm_mid_up,
                   last_pm_mid_down, position, cooldown_until_ts, clock,
                   last_exit_ts, obs>>

\* Lines 24-30 and 43: the ticker and the poll interval are read; a poll
\* interval that is not an integer raises ValueError.
MainConfig ==
    /\ main.pc = "config"
    /\ LET btc_ticker == env.KALSHI_BTC_TICKER
           poll_interval_seconds == int(getenv(env, "POLL_INTERVAL_SECONDS", "60"))
       IN  main' = IF poll_interval_seconds = None THEN Exited(1)
                   ELSE IF btc_ticker = None \/ btc_ticker = Some("")
                   THEN [main EXCEPT !.pc = "list"]
                   ELSE [main EXCEPT !.pc = "client"]
    /\ UNCHANGED <<env, cfg, clob_mode, last_hl_price, last_pm_mid_up,
                   last_pm_mid_down, position, cooldown_until_ts, clock,
                   last_exit_ts, obs>>

\* Lines 31-41: no ticker: the open markets are fetched and listed and
\* main() returns (exit status 0); get_client or get_markets may raise.
MainList ==
    /\ main.pc = "list"
    /\ \E client_ok \in BOOLEAN, markets_ok \in BOOLEAN :
         main' = IF ~client_ok THEN Exited(1)
                 ELSE IF ~markets_ok
                 THEN [Exited(1) EXCEPT !.polls = main.polls + 1]
                 ELSE [Exited(0) EXCEPT !.polls = main.polls + 1]
    /\ UNCHANGED <<env, cfg, clob_mode, last_hl_price, last_pm_mid_up,
                   last_pm_mid_down, position, cooldown_until_ts, clock,
                   last_exit_ts, obs>>

\* Lines 43-44: the client is built (get_client may raise) and the loop is
\* entered.
MainClient ==
    /\ main.pc = "client"
    /\ \E client_ok \in BOOLEAN :
         main' = IF client_ok THEN [main EXCEPT !.pc = "loop"] ELSE Exited(1)
    /\ UNCHANGED <<env, cfg, clob_mode, last_hl_price, last_pm_mid_up,
                   last_pm_mid_down, position, cooldown_until_ts, clock,
                   last_exit_ts, obs>>

\* Lines 47-62: one iteration of the loop: the order book is fetched (an
\* exception is logged) and the process sleeps for the poll interval.
MainPoll ==
    /\ main.pc = "loop"
    /\ clock < MaxTime
    /\ \E elapsed \in ElapsedMs :
         main' = [main EXCEPT
                    !.polls = main.polls + 1,
                    !.elapsed_ms = elapsed,
                    !.sleep_ms = 1000 * Val(int(getenv(env, "POLL_INTERVAL_SECONDS", "60")))]
    /\ clock' = clock + Val(int(getenv(env, "POLL_INTERVAL_SECONDS", "60")))
    /\ UNCHANGED <<env, cfg, clob_mode, last_hl_price, last_pm_mid_up,
                   last_pm_mid_down, position, cooldown_until_ts,
                   last_exit_ts, obs>>

NextMain ==
    \/ MainImport
    \/ MainConfig
    \/ MainList
    \/ MainClient
    \/ MainPoll

SpecMain == InitMain /\ [][NextMain]_vars

\* ------------------------------------------------------------- claims
\* The values the signal of the last step was evaluated on.
SeenPrice == Val(obs.seen)[1]
SeenUpMid == Val(obs.seen)[2]
SeenDownMid == Val(obs.seen)[3]

\* The last step built a BUY / a SELL order.
BuiltBuy == obs.order # None /\ Val(obs.order).side = "BUY"
BuiltSell == obs.order # None /\ Val(obs.order).side = "SELL"

\* C1: the engine holds at most one Position (the slot holds none or one),
\* and a step that starts with a Position open never calls _enter, never
\* builds a BUY order and leaves the slot either as it was or empty.
C1_SinglePosition ==
    [][ /\ Len(position') <= 1
        /\ position # None =>
             /\ obs'.attempt # "enter"
             /\ ~(obs'.order # None /\ Val(obs'.order).side = "BUY")
             /\ position' \in {position, None} ]_vars

\* C1 witness: a step that started with a Position open, had the tick and
\* both mids, polled the held book and left the Position in place.
C1_Witness ==
    /\ obs.held /\ obs.path = "hold" /\ obs.got_tick /\ obs.tob # None
    /\ position # None

\* C2: every entry that created a Position has size > 0 and
\* size * entry_price <= max_position_usdc, its entry price is the best ask
\* of the top of book polled for the entry, under top_of_book_only its size
\* is at most that top of book's ask size (notional 25, ask 0.50, ask size
\* 30: size 30, unclamped 50); an entry whose computed size is <= 0 (best
\* ask <= 0, or ask size <= 0 under clamping) builds no order and leaves
\* the engine flat.
C2_EntrySize ==
    /\ position # None =>
         /\ QLt(Zero, Val(position).size_shares)
         /\ QLe(QMul(Val(position).size_shares, Val(position).entry_price),
                cfg.max_position_usdc)
    /\ (obs.attempt = "enter" /\ position # None) =>
         /\ Val(position).entry_price = Val(Val(obs.tob).best_ask)
         /\ cfg.top_of_book_only =>
              QLe(Val(position).size_shares, Val(Val(obs.tob).best_ask_size))
         /\ (Val(Val(obs.tob).best_ask) = Q(1, 2)
               /\ Val(Val(obs.tob).best_ask_size) = QInt(30)) =>
              Val(position).size_shares =
                  IF cfg.top_of_book_only THEN QInt(30) ELSE QInt(50)
    /\ ( /\ obs.attempt = "enter"
         /\ \/ QLe(Val(Val(obs.tob).best_ask), Zero)
            \/ cfg.top_of_book_only
                 /\ QLe(Val(Val(obs.tob).best_ask_size), Zero) ) =>
         /\ obs.order = None /\ ~obs.sent /\ position = None

\* C2 witness: a clamped entry at best ask 0.50 with ask size 30.
C2_Witness ==
    /\ obs.attempt = "enter" /\ position # None /\ cfg.top_of_book_only
    /\ Val(position).entry_price = Q(1, 2)
    /\ Val(Val(obs.tob).best_ask_size) = QInt(30)
    /\ Val(position).size_shares = QInt(30)

\* C3: after a successful exit at time t, a step whose now is below
\* t + cooldown_seconds never calls _enter and creates no Position.
C3_Cooldown ==
    last_exit_ts # None =>
      /\ obs.attempt = "enter" =>
           obs.now >= Val(last_exit_ts) + cfg.cooldown_seconds
      /\ position # None =>
           Val(position).entry_ts >= Val(last_exit_ts) + cfg.cooldown_seconds
      /\ obs.now < Val(last_exit_ts) + cfg.cooldown_seconds =>
           (obs.attempt = "exit" \/ (~BuiltBuy /\ position = None))

\* C3 witness: a step taken inside the cooldown of an earlier exit (the
\* exit was stamped after the start of its own step).
C3_Witness ==
    /\ last_exit_ts # None /\ obs.path = "cooldown"
    /\ obs.now > Val(last_exit_ts)
    /\ obs.now < Val(last_exit_ts) + cfg.cooldown_seconds

\* C4: an order the gateway did not fill changes neither the position slot
\* nor cooldown_until_ts: after an unfilled entry the engine is flat as
\* before, after an unfilled exit the Position and cooldown_until_ts are
\* exactly as before; and the slot changes only in a step whose order was
\* filled (or simulated in dry-run).
C4_FillAtomicity ==
    [][ /\ (obs'.sent /\ ~obs'.acked) =>
             (position' = position /\ cooldown_until_ts' = cooldown_until_ts)
        /\ (obs'.attempt = "enter" /\ obs'.sent /\ ~obs'.acked) =>
             position' = None
        /\ position' # position =>
             (obs'.order # None /\ (obs'.acked \/ cfg.dry_run)) ]_vars

\* C4 witness: an exit order was sent, not filled, and the Position is held.
C4_Witness ==
    /\ obs.attempt = "exit" /\ obs.sent /\ ~obs.acked /\ position # None

\* C5: a step that starts with the reference anchor absent (the first
\* step) or equal to zero never calls _enter, whatever the tick, the books
\* and the threshold (0 included), and no step raises.
C5_WarmUp ==
    [][ /\ ~obs'.raised
        /\ (last_hl_price = None \/ last_hl_price = Some(Zero)) =>
             (obs'.attempt # "enter" /\ (position = None => position' = None)) ]_vars

\* C5 witness: with threshold 0 a step that started with the anchor at zero
\* got the tick 100 and both mids, and went on to the candidate's book.
C5_Witness ==
    /\ cfg.btc_move_threshold = Zero
    /\ obs.path = "no_top" /\ last_hl_price = Some(Zero)
    /\ SeenPrice = QInt(100)


\* The anchors equal to the values the last step's signal was evaluated on.
Seen(o) == <<Some(Val(o.seen)[1]), Val(o.seen)[2], Val(o.seen)[3]>>

C8_EntryIff ==
    [][ ( /\ position = None
          /\ clock >= cooldown_until_ts
          /\ last_hl_price # None
          /\ last_pm_mid_up # None
          /\ last_pm_mid_down # None
          /\ obs'.got_tick /\ obs'.got_up /\ obs'.got_down ) =>
        LET price == Val(obs'.seen)[1]
            anchor == Val(last_hl_price)
            ret == IF anchor = Zero THEN Zero
                   ELSE QSub(QDiv(price, anchor), One)
            up == QLt(Zero, ret)
            mid == IF up THEN Val(Val(obs'.seen)[2]) ELSE Val(Val(obs'.seen)[3])
            anchor_mid == IF up THEN Val(last_pm_mid_up) ELSE Val(last_pm_mid_down)
            tob == obs'.tob
        IN  /\ obs'.seen # None
            /\ (obs'.attempt = "enter") <=>
                 ( /\ QLe(cfg.btc_move_threshold, QAbs(ret))
                   /\ tob # None
                   /\ Val(tob).best_ask # None
                   /\ Val(tob).best_ask_size # None
                   /\ QLt(QAbs(QSub(mid, anchor_mid)),
                          QMul(cfg.btc_move_threshold, Q(1, 4))) )
            /\ obs'.order # None =>
                 /\ Val(obs'.order).side = "BUY"
                 /\ Val(obs'.order).token_id =
                        (IF up THEN cfg.token_up ELSE cfg.token_down)
                 /\ Val(obs'.order).price = Val(Val(tob).best_ask) ]_vars

\* C8 witness: threshold 0.0010, the tick 100.15 (after 100) and the UP
\* mid on its anchor: a BUY of the UP token was built.
C8_Witness ==
    /\ cfg.btc_move_threshold = Q(1, 1000)
    /\ obs.attempt = "enter" /\ BuiltBuy
    /\ Val(obs.order).token_id = cfg.token_up
    /\ SeenPrice = Q(10015, 100)
    /\ position # None /\ Val(position).side = "UP"

\* The last step's order was carried out: answered by the gateway, or
\* simulated in dry-run.
Succeeded(o) == o.order # None /\ o.ok

\* C9: in a step that starts Holding with now - entry_ts >=
\* max_hold_seconds, the tick and both mids present and a best bid on the
\* held token's book, _exit is called whatever the mid and with or without
\* an ask side; the order is a SELL of the held token at that best bid
\* (none is built when the clamped size is <= 0); on success the Position
\* is cleared and cooldown_until_ts is the exit time plus cooldown_seconds.
C9_MaxHoldExit ==
    [][ ( /\ position # None
          /\ clock - Val(position).entry_ts >= cfg.max_hold_seconds
          /\ obs'.got_tick /\ obs'.got_up /\ obs'.got_down
          /\ obs'.tob # None
          /\ Val(obs'.tob).best_bid # None ) =>
        LET tob == Val(obs'.tob)
            positive == ~(cfg.top_of_book_only
                            /\ QLe(Val(tob.best_bid_size), Zero))
        IN  /\ obs'.attempt = "exit"
            /\ positive <=> obs'.order # None
            /\ obs'.order # None =>
                 /\ Val(obs'.order).side = "SELL"
                 /\ Val(obs'.order).token_id = Val(position).token_id
                 /\ Val(obs'.order).price = Val(tob.best_bid)
                 /\ cfg.dry_run \/ obs'.sent
            /\ Succeeded(obs') =>
                 /\ position' = None
                 /\ last_exit_ts' # None
                 /\ Val(last_exit_ts') >= clock
                 /\ cooldown_until_ts' =
                        Val(last_exit_ts') + cfg.cooldown_seconds ]_vars

\* C9 witness: a max-hold exit on a bid-only book succeeded.
C9_Witness ==
    /\ obs.path = "max_hold" /\ obs.attempt = "exit" /\ BuiltSell
    /\ Val(obs.tob).best_ask = None
    /\ position = None
    /\ cooldown_until_ts = Val(last_exit_ts) + cfg.cooldown_seconds

\* C10: in a step that starts Holding with now - entry_ts <
\* max_hold_seconds (tick and both mids present), _exit is called iff the
\* held token's polled book has both sides and its mid is strictly above
\* entry_price; the order is a SELL at the best bid; on success the
\* Position is cleared and cooldown_until_ts is the exit time plus
\* cooldown_seconds.
C10_FavorableExit ==
    [][ ( /\ position # None
          /\ clock - Val(position).entry_ts < cfg.max_hold_seconds
          /\ obs'.got_tick /\ obs'.got_up /\ obs'.got_down ) =>
        LET tob == obs'.tob
            above ==
              /\ tob # None
              /\ Val(tob).best_bid # None
              /\ Val(tob).best_ask # None
              /\ QLt(Val(position).entry_price,
                     QDiv(QAdd(Val(Val(tob).best_bid), Val(Val(tob).best_ask)),
                          QInt(2)))
        IN  /\ (obs'.attempt = "exit") <=> above
            /\ obs'.order # None =>
                 /\ Val(obs'.order).side = "SELL"
                 /\ Val(obs'.order).token_id = Val(position).token_id
                 /\ Val(obs'.order).price = Val(Val(tob).best_bid)
            /\ Succeeded(obs') =>
                 /\ position' = None
                 /\ last_exit_ts' # None
                 /\ Val(last_exit_ts') >= clock
                 /\ cooldown_until_ts' =
                        Val(last_exit_ts') + cfg.cooldown_seconds ]_vars

\* C10 witness: a favourable exit below max hold succeeded, stamped after
\* the start of its step, and the cooldown runs from that stamp.
C10_Witness ==
    /\ obs.path = "hold" /\ obs.attempt = "exit" /\ BuiltSell
    /\ position = None
    /\ Val(last_exit_ts) > obs.now
    /\ cooldown_until_ts = Val(last_exit_ts) + cfg.cooldown_seconds

\* C11: an exit attempted at or after max hold that does not succeed leaves
\* the Position as it was, and the step right after it, when the tick, both
\* mids and a best bid of the held token are available, calls _exit again:
\* no counter, backoff or skipped cycle stands between two exit attempts.
C11_RetryExit ==
    [][ /\ ( /\ position # None
             /\ clock - Val(position).entry_ts >= cfg.max_hold_seconds
             /\ obs'.attempt = "exit"
             /\ ~obs'.ok ) =>
           /\ position' = position
           /\ cooldown_until_ts' = cooldown_until_ts
        /\ ( /\ position # None
             /\ obs.attempt = "exit" /\ ~obs.ok
             /\ obs.now - Val(position).entry_ts >= cfg.max_hold_seconds
             /\ obs'.got_tick /\ obs'.got_up /\ obs'.got_down
             /\ obs'.tob # None
             /\ Val(obs'.tob).best_bid # None ) =>
           /\ obs'.attempt = "exit"
           /\ obs'.now = clock
           /\ obs'.order # None =>
                /\ Val(obs'.order).side = "SELL"
                /\ Val(obs'.order).token_id = Val(position).token_id ]_vars

\* C11 witness: an exit order at max hold was sent and not filled, and the
\* next step sent a SELL again, which closed the Position.
C11_Witness ==
    /\ obs.retry /\ obs.held /\ obs.attempt = "exit" /\ BuiltSell /\ obs.sent
    /\ position = None

\* C12: place_fok_limit_order reports filled only when the exchange fully
\* executed the order: an exception of post_order, a response that is not a
\* dict, a response that reports the order as not executed and a client
\* that is not in trading mode are all reported as not filled; no exception
\* escapes; the Position is created or cleared only on a filled report.
C12_FilledOnlyWhenExecuted ==
    [][ /\ ~obs'.raised
        /\ obs'.sent =>
             /\ obs'.post \in {"none", "raise", "non_dict", "rejected"} => ~obs'.ok
             /\ obs'.ok => obs'.post = "matched"
        /\ position' # position => (cfg.dry_run \/ obs'.ok) ]_vars

\* C13: DRY_RUN unset gives dry_run = True; in dry-run no step calls
\* place_fok_limit_order and every order built (size > 0) succeeds; and an
\* entry or exit that succeeds changes the Position and cooldown_until_ts
\* in one and the same way whether it was simulated (dry-run) or reported
\* filled by the gateway (live): the Position opened is the order's token,
\* price and size stamped with the time of the fill, an exit clears the
\* Position and sets cooldown_until_ts to the exit time plus
\* cooldown_seconds.
C13_DryRun ==
    [][ /\ env.DRY_RUN = None => cfg.dry_run
        /\ cfg.dry_run =>
             /\ ~obs'.sent
             /\ obs'.post = "none"
             /\ obs'.order # None => obs'.ok
        /\ (obs'.order # None /\ obs'.ok) =>
             LET order == Val(obs'.order)
             IN  IF obs'.attempt = "enter"
                 THEN /\ position = None
                      /\ position' # None
                      /\ Val(position').token_id = order.token_id
                      /\ Val(position').side =
                            (IF order.token_id = cfg.token_up THEN "UP" ELSE "DOWN")
                      /\ Val(position').entry_price = order.price
                      /\ Val(position').size_shares = order.size
                      /\ Val(position').entry_ts \in clock..(clock + MaxDelay)
                      /\ cooldown_until_ts' = cooldown_until_ts
                 ELSE /\ position # None
                      /\ position' = None
                      /\ last_exit_ts' # None
                      /\ Val(last_exit_ts') \in clock..(clock + MaxDelay)
                      /\ cooldown_until_ts' =
                            Val(last_exit_ts') + cfg.cooldown_seconds ]_vars

\* C13 witness: DRY_RUN is unset and a simulated exit closed the Position
\* without a call of the gateway.
C13_Witness ==
    /\ env.DRY_RUN = None /\ cfg.dry_run
    /\ obs.attempt = "exit" /\ BuiltSell /\ ~obs.sent /\ obs.ok
    /\ position = None
    /\ cooldown_until_ts = Val(last_exit_ts) + cfg.cooldown_seconds

\* C14: a step whose reference tick is absent fetches no order book,
\* calls neither _enter nor _exit, builds and places no order, raises
\* nothing, and leaves the Position, cooldown_until_ts and the three
\* anchors as they were.
C14_NoTick ==
    [][ ~obs'.got_tick =>
          /\ obs'.polls = 0 /\ obs'.tob = None
          /\ obs'.attempt = "none" /\ obs'.order = None
          /\ ~obs'.sent /\ obs'.post = "none" /\ ~obs'.raised
          /\ position' = position
          /\ cooldown_until_ts' = cooldown_until_ts
          /\ anchors' = anchors ]_vars

\* C14 witness: a step without a tick was taken while a Position was open
\* past max hold and all anchors were set.
C14_Witness ==
    /\ obs.path = "no_tick" /\ ~obs.got_tick /\ obs.polls = 0
    /\ position # None
    /\ obs.now - Val(position).entry_ts >= cfg.max_hold_seconds
    /\ last_hl_price # None /\ last_pm_mid_up # None /\ last_pm_mid_down # None

\* C15 as stated: a step with a tick in which a mid is unavailable calls
\* neither _enter nor _exit, builds no order and leaves the three anchors,
\* the Position and cooldown_until_ts as they were, on the first step too.
C15_Original ==
    [][ (obs'.got_tick /\ (~obs'.got_up \/ ~obs'.got_down)) =>
          /\ obs'.attempt = "none" /\ obs'.order = None
          /\ anchors' = anchors
          /\ position' = position
          /\ cooldown_until_ts' = cooldown_until_ts ]_vars

\* C15 amended: such a step calls neither _enter nor _exit, builds no
\* order, and leaves the Position, cooldown_until_ts, both mid anchors and a
\* reference anchor that is set as they were; a reference anchor that is
\* absent at the start of the step is initialised to the price of the tick.
C15_NoMid ==
    [][ (obs'.got_tick /\ (~obs'.got_up \/ ~obs'.got_down)) =>
          /\ obs'.attempt = "none" /\ obs'.order = None /\ ~obs'.sent
          /\ obs'.tob = None
          /\ position' = position
          /\ cooldown_until_ts' = cooldown_until_ts
          /\ last_pm_mid_up' = last_pm_mid_up
          /\ last_pm_mid_down' = last_pm_mid_down
          /\ last_hl_price # None => last_hl_price' = last_hl_price
          /\ last_hl_price = None =>
               /\ last_hl_price' # None
               /\ Val(last_hl_price') \in TickPrices ]_vars

\* C15 witness: the first step had a tick and the UP mid but no DOWN mid:
\* the reference anchor is set, the mid anchors are not.
C15_Witness ==
    /\ obs.now = 0 /\ obs.got_tick /\ obs.got_up /\ ~obs.got_down
    /\ last_hl_price = Some(QInt(100))
    /\ last_pm_mid_up = None /\ last_pm_mid_down = None

\* C16: when PM_TOKEN_ID_UP or PM_TOKEN_ID_DOWN is missing (the Config
\* holds "" for it), main() never enters its loop, makes no call to the
\* exchange, and ends with a non-zero exit status.
C16_MissingIdsFatal ==
    (cfg.token_up = "" \/ cfg.token_down = "") =>
        /\ main.pc # "loop"
        /\ main.polls = 0
        /\ main.pc = "exited" => main.exit_status # Some(0)

\* C17: a Position is given up only by a call of _exit that succeeded, and
\* under fairness (a step with tick, both mids, a bid of positive size and
\* a fill is eventually taken) every Position held for max_hold_seconds or
\* longer is eventually closed.
C17_EventuallyClosed ==
    /\ [][ (position # None /\ position' # position) =>
             /\ position' = None
             /\ obs'.attempt = "exit" /\ obs'.order # None /\ obs'.ok ]_vars
    /\ ( position # None
           /\ clock - Val(position).entry_ts >= cfg.max_hold_seconds )
         ~> (position = None)

\* C17 witness: an exit past max hold failed, was tried again after the
\* clock reached MaxTime, and closed the Position.
C17_Witness ==
    /\ obs.retry /\ obs.now >= MaxTime
    /\ obs.attempt = "exit" /\ obs.ok /\ position = None


\* C18: cooldown_until_ts changes only in a step whose call of _exit
\* succeeded and cleared the Position, and then it is that exit's time plus
\* cooldown_seconds; every other step (an entry filled or not, an exit not
\* filled or rejected for its size, a step that returned early) leaves it
\* unchanged, and it never decreases.
C18_CooldownWrites ==
    [][ LET exited == obs'.attempt = "exit" /\ obs'.ok
        IN  /\ cooldown_until_ts' >= cooldown_until_ts
            /\ exited =>
                  /\ position # None /\ position' = None
                  /\ last_exit_ts' # None
                  /\ Val(last_exit_ts') >= obs'.now
                  /\ cooldown_until_ts' = Val(last_exit_ts') + cfg.cooldown_seconds
            /\ ~exited => cooldown_until_ts' = cooldown_until_ts ]_vars

\* C18 witness: after an exit started the cooldown, an entry order that was
\* not filled left cooldown_until_ts at that exit's time plus
\* cooldown_seconds.
C18_Witness ==
    /\ obs.attempt = "enter" /\ obs.order # None /\ ~obs.ok
    /\ last_exit_ts # None
    /\ cooldown_until_ts = Val(last_exit_ts) + cfg.cooldown_seconds


LevelOf(side, n) ==
    IF Len(side) = 0 THEN <<None, None>>
    ELSE <<Some(side[n].price), Some(side[n].size)>>

\* C20 as stated: the top of book a step works with holds the price and
\* the size of the first level of each side of the ladder it fetched, and
\* None for an empty side.
C20_Original ==
    obs.book # None =>
        LET ob == Val(obs.book)
            tob == Val(obs.tob)
        IN  /\ <<tob.best_bid, tob.best_bid_size>> = LevelOf(ob.bids, 1)
            /\ <<tob.best_ask, tob.best_ask_size>> = LevelOf(ob.asks, 1)

\* C20 amended: the top of book a step works with holds the price and the
\* size of the last level of each side of the ladder it fetched; the price
\* and the size of a side are None exactly when that side is empty.
C20_LastLevel ==
    obs.book # None =>
        LET ob == Val(obs.book)
            tob == Val(obs.tob)
        IN  /\ obs.tob # None
            /\ <<tob.best_bid, tob.best_bid_size>> = LevelOf(ob.bids, Len(ob.bids))
            /\ <<tob.best_ask, tob.best_ask_size>> = LevelOf(ob.asks, Len(ob.asks))
            /\ (tob.best_bid = None) <=> (ob.bids = <<>>)
            /\ (tob.best_bid_size = None) <=> (ob.bids = <<>>)
            /\ (tob.best_ask = None) <=> (ob.asks = <<>>)
            /\ (tob.best_ask_size = None) <=> (ob.asks = <<>>)

\* C20 witness: a step fetched a ladder with two levels a side and works
\* with the bid 0.30 (size 0) and the ask 0.50 (size 30) of the last levels.
C20_Witness ==
    /\ obs.book # None
    /\ Len(Val(obs.book).bids) = 2 /\ Len(Val(obs.book).asks) = 2
    /\ Val(obs.tob).best_bid = Some(Q(30, 100))
    /\ Val(obs.tob).best_bid_size = Some(QInt(0))
    /\ Val(obs.tob).best_ask = Some(Q(50, 100))
    /\ Val(obs.tob).best_ask_size = Some(QInt(30))


\* C21: once the loop has run an iteration, BTCLagArb.step was driven in
\* it and the sleep that followed was max(hl_poll_ms, pm_poll_ms) minus
\* the time the iteration took, floored at 0.
C21_Cadence ==
    (main.pc = "loop" /\ main.polls > 0) =>
        /\ obs.path # "init"
        /\ main.sleep_ms =
              Max(0, Max(cfg.hl_poll_ms, cfg.pm_poll_ms) - main.elapsed_ms)


\* C22: in every flat state the shares sold by the exits so far equal the
\* shares bought by the entries so far.
C22_ShareConservation ==
    position = None => obs.net_shares = Zero


\* C23: a step that starts with any of the three anchors absent builds no
\* entry order and opens no Position.
C23_NoEntryOnAbsentAnchor ==
    [][ (\E i \in 1..3 : anchors[i] = None) =>
          /\ ~(obs'.attempt = "enter" /\ obs'.order # None)
          /\ position' = position ]_vars


\* C24: when the engine is flat and out of cooldown with a reference
\* anchor that is zero, the anchor eventually becomes non-zero, under
\* fairness of the steps in which the tick carries a positive price and
\* both mids are there.
C24_WarmUpEnds ==
    ( /\ last_hl_price = Some(Zero)
      /\ position = None
      /\ clock >= cooldown_until_ts )
        ~> (last_hl_price # Some(Zero))


\* C25: when a step builds an entry order, the order book its best ask was
\* read from has a mid, and that mid is less than threshold * 0.25 away
\* from the candidate's anchor as it stood when the staleness test ran.
C25_AskFromCheckedBook ==
    [][ (obs'.attempt = "enter" /\ obs'.order # None) =>
        LET up == Val(obs'.order).token_id = cfg.token_up
            seen_mid == IF up THEN Val(obs'.seen)[2] ELSE Val(obs'.seen)[3]
            last_mid == IF up THEN last_pm_mid_up ELSE last_pm_mid_down
            anchor == IF last_mid = None THEN seen_mid ELSE last_mid
            tob == Val(obs'.tob)
        IN  \A book_mid \in {_mid(tob.best_bid, tob.best_ask)} :
              /\ book_mid # None
              /\ QLt(QAbs(QSub(Val(book_mid), Val(anchor))),
                     QMul(cfg.btc_move_threshold, StaleFraction)) ]_vars

\* C26 as stated: in a step that starts Holding past max hold with the tick
\* present and the held token's mid obtained, the held token's book is
\* polled for the exit and, when it shows a best bid, _exit is called,
\* whatever the other token's book returned.
C26_Original ==
    [][ ( /\ position # None
          /\ clock - Val(position).entry_ts >= cfg.max_hold_seconds
          /\ obs'.got_tick /\ ~obs'.raised
          /\ IF Val(position).side = "UP" THEN obs'.got_up
                                           ELSE obs'.got_down ) =>
        /\ obs'.polls = 3
        /\ (obs'.tob # None /\ Val(obs'.tob).best_bid # None) =>
              obs'.attempt = "exit" ]_vars

\* C26: in a step that starts Holding, the held token's book is polled for
\* the exit iff the tick and BOTH mids were obtained (lines 170-171 return
\* before the holding branch otherwise, leaving the Position alone), and
\* _exit is called iff in addition that book has a best bid and either max
\* hold is reached or the book has both sides with mid above entry_price.
C26_ExitNeedsBothMids ==
    [][ position # None =>
        LET all == obs'.got_tick /\ obs'.got_up /\ obs'.got_down
            tob == obs'.tob
            due ==
              /\ tob # None
              /\ Val(tob).best_bid # None
              /\ \/ clock - Val(position).entry_ts >= cfg.max_hold_seconds
                 \/ /\ Val(tob).best_ask # None
                    /\ QLt(Val(position).entry_price,
                           QDiv(QAdd(Val(Val(tob).best_bid),
                                     Val(Val(tob).best_ask)), QInt(2)))
        IN  /\ (obs'.polls = 3) <=> all
            /\ (obs'.attempt = "exit") <=> (all /\ due)
            /\ ~all => /\ position' = position
                       /\ obs'.order = None
                       /\ cooldown_until_ts' = cooldown_until_ts ]_vars

\* C26 witness: a step that started Holding past max hold got the tick and
\* the held token's mid but not the other token's mid, and attempted no exit.
C26_Witness ==
    /\ obs.held
    /\ position # None
    /\ obs.now - Val(position).entry_ts >= cfg.max_hold_seconds
    /\ obs.got_tick
    /\ IF Val(position).side = "UP" THEN obs.got_up /\ ~obs.got_down
                                     ELSE obs.got_down /\ ~obs.got_up
    /\ obs.path = "no_mid"
    /\ obs.attempt = "none"

\* C27: in a step that starts Holding, or Flat with now < cooldown_until_ts,
\* the three anchors are all set already and none of them changes: the
\* steps of lines 161-162 and 173-176 only initialise an absent anchor and
\* the update of lines 232-234 is not reached.
C27_AnchorsFrozen ==
    [][ (position # None \/ clock < cooldown_until_ts) =>
          /\ last_hl_price # None
          /\ last_pm_mid_up # None
          /\ last_pm_mid_down # None
          /\ last_hl_price' = last_hl_price
          /\ last_pm_mid_up' = last_pm_mid_up
          /\ last_pm_mid_down' = last_pm_mid_down ]_vars

\* C27 witness: a step taken Flat inside the cooldown that follows an exit
\* got the tick and both mids and left the anchors of the entry in place.
C27_Witness ==
    /\ obs.path = "cooldown"
    /\ ~obs.held
    /\ obs.now < cooldown_until_ts
    /\ obs.got_tick /\ obs.got_up /\ obs.got_down
    /\ last_exit_ts # None
    /\ last_hl_price # None
    /\ last_pm_mid_up # None
    /\ last_pm_mid_down # None

\* C28: every order a step builds (and so every order it sends) fits the
\* state the step started in: a BUY only from Flat, by _enter, for
\* cfg.token_up or cfg.token_down at the best ask of the polled top of book
\* with a positive size; a SELL only from Holding, by _exit, for the held
\* token at the polled best bid with 0 < size <= the Position's
\* size_shares; shares sold never exceed shares bought.
C28_WellFormedOrders ==
    [][ /\ obs'.sent => obs'.order # None
        /\ obs'.order # None =>
             LET o == Val(obs'.order)
                 tob == Val(obs'.tob)
             IN  /\ obs'.tob # None
                 /\ QLt(Zero, o.size)
                 /\ \/ /\ o.side = "BUY"
                       /\ position = None
                       /\ obs'.attempt = "enter"
                       /\ o.token_id \in {cfg.token_up, cfg.token_down}
                       /\ tob.best_ask = Some(o.price)
                    \/ /\ o.side = "SELL"
                       /\ position # None
                       /\ obs'.attempt = "exit"
                       /\ o.token_id = Val(position).token_id
                       /\ tob.best_bid = Some(o.price)
                       /\ QLe(o.size, Val(position).size_shares)
        /\ QLe(Zero, obs'.net_shares) ]_vars

\* C28 witness: a SELL smaller than the Position was sent to the gateway
\* and reported filled.
C28_Witness ==
    /\ obs.sent
    /\ obs.ok
    /\ BuiltSell
    /\ obs.held
    /\ QLt(Zero, obs.net_shares)

\* C29: a Position is UP on cfg.token_up or DOWN on cfg.token_down; in the
\* step that opens it the return hl_ret of the tick against the anchor is
\* not 0, the side is UP iff the token is cfg.token_up and hl_ret > 0, and
\* DOWN iff the token is cfg.token_down and hl_ret < 0; a flat step whose
\* hl_ret is 0 never calls _enter, whether btc_move_threshold is positive,
\* zero or negative.
C29_SideMatchesSignal ==
    [][ /\ position' # None =>
             \/ /\ Val(position').side = "UP"
                /\ Val(position').token_id = cfg.token_up
             \/ /\ Val(position').side = "DOWN"
                /\ Val(position').token_id = cfg.token_down
        /\ (position = None /\ obs'.seen # None) =>
             \A ret \in {HlRet(Val(obs'.seen)[1], HlAnchor(Val(obs'.seen)[1]))} :
               /\ ret # None
               /\ Val(ret) = Zero => /\ obs'.attempt # "enter"
                                     /\ position' = None
               /\ position' # None =>
                    /\ (Val(position').side = "UP") <=>
                          /\ Val(position').token_id = cfg.token_up
                          /\ QLt(Zero, Val(ret))
                    /\ (Val(position').side = "DOWN") <=>
                          /\ Val(position').token_id = cfg.token_down
                          /\ QLt(Val(ret), Zero)
        /\ (position = None /\ position' # None) => obs'.seen # None ]_vars

\* C29 witness: a DOWN Position on cfg.token_down was opened by the last
\* step, whose tick was below the anchor.
C29_Witness ==
    /\ ~obs.held
    /\ obs.attempt = "enter"
    /\ position # None
    /\ Val(position).side = "DOWN"
    /\ Val(position).token_id = cfg.token_down
    /\ SeenPrice = Zero

\* C30: a step builds at most one order, a BUY by _enter or a SELL by
\* _exit, never both.  A step that calls _enter started Flat, leaves
\* cooldown_until_ts and the last exit alone and ends Holding only if the
\* entry succeeded; a step that calls _exit started Holding and ends with
\* the same Position or with none; a step that calls neither builds no
\* order and leaves the Position slot as it was.
C30_OneOrderPerStep ==
    [][ /\ obs'.orders <= 1
        /\ (obs'.orders = 1) <=> (obs'.order # None)
        /\ obs'.attempt \in {"none", "enter", "exit"}
        /\ obs'.attempt = "none" =>
             /\ obs'.order = None
             /\ position' = position
        /\ obs'.attempt = "enter" =>
             /\ position = None
             /\ obs'.order # None => Val(obs'.order).side = "BUY"
             /\ (position' # None) <=> Succeeded(obs')
             /\ cooldown_until_ts' = cooldown_until_ts
             /\ last_exit_ts' = last_exit_ts
        /\ obs'.attempt = "exit" =>
             /\ position # None
             /\ obs'.order # None => Val(obs'.order).side = "SELL"
             /\ position' = (IF Succeeded(obs') THEN None ELSE position) ]_vars

\* C30 witness: a step that started Holding sent one SELL, which filled,
\* and ended Flat inside the cooldown the exit started.
C30_Witness ==
    /\ obs.held
    /\ obs.attempt = "exit"
    /\ obs.orders = 1
    /\ obs.sent /\ obs.ok
    /\ position = None
    /\ obs.now < cooldown_until_ts

=============================================================================
